---- MODULE Spec2Model ----
(***************************************************************************)
(* Alert e-mail processor: mailbox reader -> classifier -> sender -> CSV   *)
(* audit log, driven once or by the interval scheduler.                    *)
(*                                                                         *)
(* A message id is the provider's hexadecimal string, kept as the sequence *)
(* of its hex digits (0..15), so that what pandas.read_csv makes of the    *)
(* id column (an all-decimal column is read back as integers) is computed  *)
(* and not assumed.  Time is counted in whole days.                        *)
(***************************************************************************)
EXTENDS Integers, Sequences, FiniteSets, TLC

VARIABLES
    unread,             \* ids carrying the UNREAD label in the inbox
    csv,                \* the audit log file: its data rows, in file order
    now,                \* wall clock, in days
    pc,                 \* position of process_alerts: idle / loop / returned,
                        \* killed when the process ended with the cycle in flight
    emails,             \* process_alerts: the fetched list
    emails_to_process,  \* process_alerts: the list after the duplicate filter
    idx,                \* process_alerts: position of the for loop
    results,            \* process_alerts: the results dictionary
    done,               \* ids the for loop has passed to _process_single_email
    last,               \* what the latest iteration of the for loop did
    recorded,           \* ids for which save_processed_email ever wrote a row
    aborted,            \* a scheduled cycle has ended in a critical error
    caller,             \* who runs the current cycle: none / once / initial / job
    is_running,         \* AlertEmailScheduler.is_running
    stop_event,         \* AlertEmailScheduler.stop_event
    jobs,               \* len(schedule.jobs)
    thread,             \* scheduler_thread: "none", "alive" or "exited"
    response_text,      \* the classifier's reply handed to _parse_gemini_response
    parsed,             \* what _parse_gemini_response made of it
    db_call,            \* the latest call of an EmailDatabase method and its return
    reader_call         \* the latest call of an EmailReader method and its return

vars == << unread, csv, now, pc, emails, emails_to_process, idx, results, done,
           last, recorded, aborted, caller, is_running, stop_event, jobs, thread,
           response_text, parsed, db_call, reader_call >>

cycleVars == << pc, emails, emails_to_process, idx, results, done, last, caller >>
schedVars == << is_running, stop_event, jobs, thread >>
llmVars == << response_text, parsed >>

----------------------------------------------------------------------------
\* Bounds of the model

\* rows the audit log may hold before a further cycle is started
MaxRows == 2
\* last day of the clock
MaxTime == 1
\* largest days_to_keep handed to cleanup_old_records
MaxKeep == 0

\* config.max_emails_per_batch, scaled down
MaxBatch == 2
\* parts of a multipart message
MaxParts == 2

\* Program constants
retry_attempts == 3
fetch_attempts == 3

\* the messages of the mailbox, by id: "17" (all decimal digits) and "a1"
MsgIds == { <<1, 7>>, <<10, 1>> }

ActionType == { "Re-hit", "Backend", "Code" }
Reasons == { "db timeout" }

backend_team_email == "backend@company.com"
code_team_email    == "dev@company.com"
rehit_team_email   == "ops@company.com"

----------------------------------------------------------------------------
\* Sequences

RECURSIVE SelectRows(_, _)
SelectRows(s, keep) ==
    IF s = << >> THEN << >>
    ELSE IF keep[1] THEN << Head(s) >> \o SelectRows(Tail(s), Tail(keep))
         ELSE SelectRows(Tail(s), Tail(keep))

\* the ids of a set, as a list in a fixed order (lexicographic by digit)
IdLess(a, b) ==
    \E i \in 1..Len(a) :
        /\ i <= Len(b)
        /\ a[i] < b[i]
        /\ \A j \in 1..(i - 1) : a[j] = b[j]

RECURSIVE ListOf(_)
ListOf(S) ==
    IF S = {} THEN << >>
    ELSE LET m == CHOOSE x \in S : \A y \in S \ {x} : IdLess(x, y)
         IN  << m >> \o ListOf(S \ {m})

----------------------------------------------------------------------------
\* config.py

\* the unknown-action value used to exercise the default of get_team_email
OtherActions == { "Unknown", "" }

\* a faulty variant: the mapping has lost its "Re-hit" entry
get_team_email_norehit(action) ==
    IF action = "Backend" THEN backend_team_email
    ELSE IF action = "Code" THEN code_team_email
    ELSE backend_team_email

get_team_email(action) ==
    IF action = "Re-hit" THEN rehit_team_email
    ELSE IF action = "Backend" THEN backend_team_email
    ELSE IF action = "Code" THEN code_team_email
    ELSE backend_team_email

----------------------------------------------------------------------------
\* tenacity.retry(stop=stop_after_attempt(stop)): attempt n of the wrapped
\* call; an attempt that returns ends the loop with that attempt's value, an
\* attempt that raises is retried, and after attempt number `stop` has raised
\* RetryError is raised to the caller.  raises[n] says whether attempt n raises.

RECURSIVE Retrying(_, _, _)
Retrying(raises, n, stop) ==
    IF ~raises[n] THEN [attempts |-> n, raised |-> FALSE]
    ELSE IF n >= stop THEN [attempts |-> n, raised |-> TRUE]
    ELSE Retrying(raises, n + 1, stop)

----------------------------------------------------------------------------
\* email_reader.py

\* a faulty variant: the provider's error is raised at once, without retry
fetch_without_retry(raises, listed) ==
    [ attempts |-> 1, raised |-> raises[1],
      emails |-> IF raises[1] THEN << >> ELSE listed ]

\* fetch_unread_emails under @retry(stop=stop_after_attempt(3)): the body
\* re-raises what the provider call raised and tenacity calls it again;
\* raises[n] says whether the provider call of attempt n raises, listed is
\* what messages().list returns
fetch_unread_emails(raises, listed) ==
    LET r == Retrying(raises, 1, fetch_attempts)
    IN  [ attempts |-> r.attempts, raised |-> r.raised,
          emails |-> IF r.raised THEN << >> ELSE listed ]

\* text as a list of tokens: a word, the blank " ", a tag "<t>"
IsTag(token) == token = "<t>"

\* base64.urlsafe_b64decode(data).decode('utf-8') of a part's data
b64decode(data) == data.b64

\* re.sub(r'<[^>]+>', '', html_content)
RECURSIVE StripTags(_)
StripTags(text) ==
    IF text = << >> THEN << >>
    ELSE IF IsTag(Head(text)) THEN StripTags(Tail(text))
    ELSE << Head(text) >> \o StripTags(Tail(text))

\* str.strip()
RECURSIVE LStrip(_)
LStrip(text) ==
    IF text # << >> /\ Head(text) = " " THEN LStrip(Tail(text)) ELSE text

RECURSIVE RStrip(_)
RStrip(text) ==
    IF text # << >> /\ text[Len(text)] = " "
    THEN RStrip(SubSeq(text, 1, Len(text) - 1)) ELSE text

Strip(text) == RStrip(LStrip(text))

\* part['body'].get('data') is truthy: the key is there and the string is
\* not empty
HasData(part) == part.data # << >>

\* the for loop of _extract_email_body over payload['parts'], body so far
RECURSIVE ExtractParts(_, _)
ExtractParts(parts, body) ==
    IF parts = << >> THEN body
    ELSE LET part == Head(parts)
             next == IF part.mimeType = "text/plain"
                     THEN IF HasData(part) THEN body \o b64decode(part.data[1])
                          ELSE body
                     ELSE IF part.mimeType = "text/html" /\ body = << >>
                     THEN IF HasData(part) THEN StripTags(b64decode(part.data[1]))
                          ELSE body
                     ELSE body
         IN  ExtractParts(Tail(parts), next)

\* _extract_email_body: a payload with 'parts' is multipart; a single part is
\* read only when it is text/plain
extract_email_body(payload) ==
    IF payload.multipart
    THEN Strip(ExtractParts(payload.parts, << >>))
    ELSE IF payload.mimeType = "text/plain" /\ HasData(payload)
    THEN Strip(b64decode(payload.data[1]))
    ELSE << >>

----------------------------------------------------------------------------
\* database.py: the CSV file and what pandas.read_csv makes of it

\* a timestamp as text: its day and the separator between date and time.
\* datetime.isoformat() writes "T", DataFrame.to_csv writes a blank.
isoformat(day) == [ day |-> day, sep |-> "T" ]
to_csv_datetime(day) == [ day |-> day, sep |-> " " ]

\* pd.to_datetime of a column of strings (pandas 2): the format is guessed
\* from the first element and every element must match it, else ValueError
to_datetime(column) ==
    IF \E i \in 1..Len(column) : column[i].sep # column[1].sep
    THEN [ raised |-> TRUE, value |-> << >> ]
    ELSE [ raised |-> FALSE, value |-> [ i \in 1..Len(column) |-> column[i].day ] ]

ProcessedAtColumn(file) == [ i \in 1..Len(file) |-> file[i].processed_at ]

\* csv.writer row of a ProcessedEmail (the generated id column is left out)
CsvRow(processed_email) ==
    [ original_message_id |-> processed_email.original_message_id,
      processed_at        |-> isoformat(processed_email.processed_at),
      action_taken        |-> processed_email.action_taken,
      reason              |-> processed_email.reason,
      sent_to_team        |-> processed_email.sent_to_team,
      success             |-> processed_email.success,
      error_message       |-> processed_email.error_message ]

\* a cell made of decimal digits only is numeric to read_csv
IsDecimal(cell) == \A i \in 1..Len(cell) : cell[i] <= 9

RECURSIVE StripZeros(_)
StripZeros(cell) ==
    IF Len(cell) > 1 /\ cell[1] = 0 THEN StripZeros(Tail(cell)) ELSE cell

\* read_csv infers one dtype per column: int64 when every cell of the column
\* is numeric, object (the cells as text) otherwise
ColumnIsInt(file) ==
    \A i \in 1..Len(file) : IsDecimal(file[i].original_message_id)

IdColumn(file) ==
    [ i \in 1..Len(file) |->
        IF ColumnIsInt(file)
        THEN [ kind |-> "int", digits |-> StripZeros(file[i].original_message_id) ]
        ELSE [ kind |-> "str", digits |-> file[i].original_message_id ] ]

\* the lookup `message_id in df['original_message_id'].values` with message_id
\* a str: a str equals no element of an int64 column
check_duplicate(message_id, file, readOk) ==
    IF ~readOk THEN FALSE
    ELSE IF file = << >> THEN FALSE
    ELSE \E i \in 1..Len(file) :
            /\ IdColumn(file)[i].kind = "str"
            /\ IdColumn(file)[i].digits = message_id

\* a faulty variant: the file is opened with mode 'w'
save_truncates(processed_email, file, writeOk) ==
    IF writeOk
    THEN [ file |-> << CsvRow(processed_email) >>, ret |-> TRUE ]
    ELSE [ file |-> file, ret |-> FALSE ]

\* a faulty variant: a failed write is reported as a success
save_reports_success(processed_email, file, writeOk) ==
    IF writeOk
    THEN [ file |-> Append(file, CsvRow(processed_email)), ret |-> TRUE ]
    ELSE [ file |-> file, ret |-> TRUE ]

\* save_processed_email: one row appended to the file; False, and nothing
\* written, when open or write raises
save_processed_email(processed_email, file, writeOk) ==
    IF writeOk
    THEN [ file |-> Append(file, CsvRow(processed_email)), ret |-> TRUE ]
    ELSE [ file |-> file, ret |-> FALSE ]

\* DataFrame.to_csv of the rows kept: an int64 id column is written back as
\* the integers' decimal text, the datetime64 column in to_csv's format
ToCsv(file, keep) ==
    LET col == IdColumn(file)
        out == [ i \in 1..Len(file) |->
                    [ file[i] EXCEPT !.original_message_id = col[i].digits,
                                     !.processed_at = to_csv_datetime(@.day) ] ]
    IN  SelectRows(out, keep)

cleanup_old_records(days_to_keep, file, today, ioOk) ==
    IF ~ioOk THEN [ file |-> file, ret |-> 0 ]
    ELSE IF file = << >> THEN [ file |-> file, ret |-> 0 ]
    ELSE LET cutoff_date == today - days_to_keep
             processed_at == to_datetime(ProcessedAtColumn(file))
             keep == [ i \in 1..Len(file) |-> processed_at.value[i] >= cutoff_date ]
             df_filtered == ToCsv(file, keep)
         IN  IF processed_at.raised THEN [ file |-> file, ret |-> 0 ]
             ELSE [ file |-> df_filtered, ret |-> Len(file) - Len(df_filtered) ]

\* len(df[df['success'] == value])
CountSuccess(file, value) ==
    Cardinality({ i \in 1..Len(file) : file[i].success = value })

\* the empty dict
EmptyDict == << >>

\* get_processing_stats: {} when the file cannot be read, holds no rows, or a
\* step of the computation raises; success_rate is kept as the fraction
\* num/den it is computed from
get_processing_stats(file, today, ioOk) ==
    IF ~ioOk THEN EmptyDict
    ELSE IF file = << >> THEN EmptyDict
    ELSE LET total_processed == Len(file)
             successful == CountSuccess(file, TRUE)
             failed == CountSuccess(file, FALSE)
             processed_at == to_datetime(ProcessedAtColumn(file))
             recent_cutoff == today - 1
         IN  IF processed_at.raised THEN EmptyDict
             ELSE [ total_processed |-> total_processed,
                    successful      |-> successful,
                    failed          |-> failed,
                    success_rate    |-> IF total_processed > 0
                                        THEN [ num |-> successful * 100,
                                               den |-> total_processed ]
                                        ELSE [ num |-> 0, den |-> 1 ],
                    recent_24h      |-> Cardinality({ i \in 1..Len(file) :
                                            processed_at.value[i] >= recent_cutoff }) ]

\* an optional argument: None, or a value
None == << >>
Some(x) == << x >>

\* the truth value `if x:` gives an optional int, an optional str
TruthyInt(x) == x # None /\ x[1] # 0
TruthyStr(x) == x # None /\ x[1] # ""

\* DataFrame.tail(n), n >= 0
DfTail(df, n) == IF n >= Len(df) THEN df ELSE SubSeq(df, Len(df) - n + 1, Len(df))

\* the ProcessedEmail built from row i of the DataFrame read from the file
RowObject(file, i) ==
    [ file[i] EXCEPT !.original_message_id = IdColumn(file)[i].digits,
                     !.processed_at = @.day ]

\* get_processed_emails; df is kept as the list of the row numbers selected
get_processed_emails(limit, action_filter, date_from, date_to, file, ioOk) ==
    IF ~ioOk THEN << >>
    ELSE IF file = << >> THEN << >>
    ELSE LET Column(df) == [ k \in 1..Len(df) |-> file[df[k]].processed_at ]
             all == [ i \in 1..Len(file) |-> i ]
             by_action ==
                 IF TruthyStr(action_filter)
                 THEN SelectRows(all, [ k \in 1..Len(all) |->
                                  file[all[k]].action_taken = action_filter[1] ])
                 ELSE all
             from_column == to_datetime(Column(by_action))
             from_raised == date_from # None /\ from_column.raised
             by_from ==
                 IF date_from # None
                 THEN SelectRows(by_action, [ k \in 1..Len(by_action) |->
                                  from_column.value[k] >= date_from[1] ])
                 ELSE by_action
             to_column == to_datetime(Column(by_from))
             to_raised == date_to # None /\ date_from = None /\ to_column.raised
             by_to ==
                 IF date_to # None
                 THEN SelectRows(by_from, [ k \in 1..Len(by_from) |->
                                  file[by_from[k]].processed_at.day <= date_to[1] ])
                 ELSE by_from
             limited == IF TruthyInt(limit) THEN DfTail(by_to, limit[1]) ELSE by_to
         IN  IF from_raised \/ to_raised THEN << >>
             ELSE [ k \in 1..Len(limited) |-> RowObject(file, limited[k]) ]

----------------------------------------------------------------------------
\* email_sender.py

\* one transport attempt: the API call succeeds (ok) or raises; the except
\* clause turns a raise into the return value False
send_via_gmail_api(ok) == [ raised |-> FALSE, value |-> ok ]

\* the body of send_summary_email: returns the transport's value, and False
\* on an exception
send_summary_body(ok) ==
    LET r == send_via_gmail_api(ok)
    IN  IF r.raised THEN [ raised |-> FALSE, value |-> FALSE ] ELSE r

\* send_summary_email under its @retry decorator; net[n] says whether the
\* transport would succeed at attempt n
send_summary_email(net) ==
    LET raises == [ n \in 1..retry_attempts |-> send_summary_body(net[n]).raised ]
        r == Retrying(raises, 1, retry_attempts)
    IN  [ attempts |-> r.attempts,
          raised   |-> r.raised,
          value    |-> IF r.raised THEN FALSE
                       ELSE send_summary_body(net[r.attempts]).value ]

\* a send as the transport sees it
SentMail(kind, recipient, r) ==
    [ kind |-> kind, recipient |-> recipient, attempts |-> r.attempts,
      ok |-> r.value, raised |-> r.raised ]

\* send_error_notification: a SummaryEmail to the backend team, sent with
\* send_summary_email; every exception ends in the return value False
send_error_notification(net) ==
    LET r == send_summary_email(net)
    IN  SentMail("error", backend_team_email,
                 [ attempts |-> r.attempts, raised |-> FALSE,
                   value |-> IF r.raised THEN FALSE ELSE r.value ])

----------------------------------------------------------------------------
\* llm_analyzer.py: _parse_gemini_response
\*
\* A reply is a sequence of tokens [key, value]: the braces "{" and "}", free
\* text "txt", and the members "action", "reason", "confidence" of a JSON
\* object with their values as written in the reply.

Brace(b) == [ key |-> b, value |-> "" ]
FreeText == [ key |-> "txt", value |-> "" ]
MemberKeys == { "action", "reason", "confidence" }

\* a faulty variant: another default
default_confidence_one == "1"

\* the default of parsed_response.get('confidence', 0.8)
default_confidence == "0.8"

\* str.find / str.rfind of a brace: 0 when it does not occur
Find(text, b) ==
    IF \E i \in 1..Len(text) : text[i] = Brace(b)
    THEN CHOOSE i \in 1..Len(text) :
            /\ text[i] = Brace(b)
            /\ \A j \in 1..(i - 1) : text[j] # Brace(b)
    ELSE 0

RFind(text, b) ==
    IF \E i \in 1..Len(text) : text[i] = Brace(b)
    THEN CHOOSE i \in 1..Len(text) :
            /\ text[i] = Brace(b)
            /\ \A j \in (i + 1)..Len(text) : text[j] # Brace(b)
    ELSE 0

\* json.loads of the slice: an object is "{", members, "}"; anything else is
\* a JSONDecodeError.  A key given twice keeps its last value.
json_loads(json_text) ==
    IF /\ Len(json_text) >= 2
       /\ json_text[1] = Brace("{")
       /\ json_text[Len(json_text)] = Brace("}")
       /\ \A i \in 2..(Len(json_text) - 1) : json_text[i].key \in MemberKeys
    THEN LET keys == { json_text[i].key : i \in 2..(Len(json_text) - 1) }
             at(k) == CHOOSE i \in 2..(Len(json_text) - 1) :
                         /\ json_text[i].key = k
                         /\ \A j \in (i + 1)..(Len(json_text) - 1) :
                               json_text[j].key # k
         IN  [ raised |-> FALSE, value |-> [ k \in keys |-> json_text[at(k)].value ] ]
    ELSE [ raised |-> TRUE, value |-> << >> ]

\* the number a confidence is, in hundredths; null is no number
IsNull(c) == c = "null"
Hundredths(c) ==
    CASE c = "-0.1" -> -10
      [] c = "0"    -> 0
      [] c = "0.8"  -> 80
      [] c = "0.85" -> 85
      [] c = "1"    -> 100
      [] c = "1.5"  -> 150

\* str.strip() of a reason leaves nothing
IsBlank(r) == r \in { "", "   " }

NoResult  == [ kind |-> "none",  action |-> "", reason |-> "", confidence |-> "" ]
Raised    == [ kind |-> "raise", action |-> "", reason |-> "", confidence |-> "" ]
Pending   == [ kind |-> "pending", action |-> "", reason |-> "", confidence |-> "" ]

\* the LLMAnalysis model: the reason must not be blank, a confidence that is
\* not None must lie in [0, 1]; a violation raises ValidationError
LLMAnalysis(action, reason, confidence) ==
    IF \/ IsBlank(reason)
       \/ ~IsNull(confidence) /\ (Hundredths(confidence) < 0 \/ Hundredths(confidence) > 100)
    THEN Raised
    ELSE [ kind |-> "analysis", action |-> action, reason |-> reason,
           confidence |-> IF IsNull(confidence) THEN "None" ELSE confidence ]

\* the try block of _parse_gemini_response: ends in a return value or in an
\* exception
parse_try_block(text) ==
    LET json_start == Find(text, "{")
        json_end == RFind(text, "}")
    IN  IF json_start = 0 \/ json_end = 0 THEN NoResult
        ELSE LET loaded == json_loads(SubSeq(text, json_start, json_end))
                 parsed_response == loaded.value
             IN  IF loaded.raised THEN Raised
                 ELSE IF \/ "action" \notin DOMAIN parsed_response
                         \/ "reason" \notin DOMAIN parsed_response
                 THEN NoResult
                 ELSE IF parsed_response["action"] \notin ActionType THEN NoResult
                 ELSE LLMAnalysis(parsed_response["action"], parsed_response["reason"],
                         IF "confidence" \in DOMAIN parsed_response
                         THEN parsed_response["confidence"]
                         ELSE default_confidence)

\* a faulty variant: the except clauses are missing
parse_gemini_response_unguarded(text) == parse_try_block(text)

\* _parse_gemini_response: both except clauses return None
parse_gemini_response(text) ==
    IF parse_try_block(text).kind = "raise" THEN NoResult ELSE parse_try_block(text)

\* the replies tried
ActionTexts == ActionType \cup { "InvalidAction" }
ReasonTexts == Reasons \cup { "", "   " }
ConfidenceTexts == { "null", "-0.1", "0", "0.85", "1", "1.5" }

Members(key, values) == { << >> } \cup { << [ key |-> key, value |-> v ] >> : v \in values }

Objects ==
    { << Brace("{") >> \o a \o r \o c \o << Brace("}") >> :
        a \in Members("action", ActionTexts),
        r \in Members("reason", ReasonTexts),
        c \in Members("confidence", ConfidenceTexts) }

Around == { << >>, << FreeText >>, << Brace("{") >>, << Brace("}") >> }

Responses ==
    { pre \o body \o post :
        pre \in Around, post \in Around,
        body \in Objects \cup { << >>, << Brace("{"), FreeText, Brace("}") >>,
                                << Brace("{"),
                                   [ key |-> "action", value |-> "Code" ],
                                   [ key |-> "action", value |-> "Backend" ],
                                   [ key |-> "reason", value |-> "db timeout" ],
                                   Brace("}") >> } }

----------------------------------------------------------------------------
\* processor.py: _process_single_email

\* no analysis (analyze_email returned None)
NoAnalysis == [ action |-> "none", reason |-> "" ]
Analyses == { NoAnalysis } \cup [ action : ActionType, reason : Reasons ]

\* where code outside the try block's own calls can raise for one email:
\* "none"; "from_analysis": SummaryEmail.from_analysis raises; "record":
\* constructing a ProcessedEmail for this email raises (wherever it is built)
Faults == { "none", "from_analysis", "record" }

ProcessedEmail(message_id, action, reason, team, success, error, today) ==
    [ original_message_id |-> message_id,
      processed_at        |-> today,
      action_taken        |-> action,
      reason              |-> reason,
      sent_to_team        |-> team,
      success             |-> success,
      error_message       |-> error ]

\* the except clause of _process_single_email, entered after `sent`
ExceptClause(message_id, sent, errNet, fault, today) ==
    LET notified == Append(sent, send_error_notification(errNet))
    IN  IF fault = "record"
        THEN [ ret |-> "raise", sends |-> notified, saves |-> << >> ]
        ELSE [ ret |-> "false", sends |-> notified,
               saves |-> << ProcessedEmail(message_id, "Backend", "Processing error",
                                backend_team_email, FALSE,
                                "Unexpected error processing email", today) >> ]

\* a faulty variant: the failed record falls back to the default
\* classification
SendFailedAsBackend(message_id, analysis, recipient, sent, errNet, fault, today) ==
    IF fault = "record"
    THEN ExceptClause(message_id, sent, errNet, fault, today)
    ELSE [ ret |-> "false", sends |-> sent,
           saves |-> << ProcessedEmail(message_id, "Backend", "Send failed",
                            backend_team_email, FALSE,
                            "Failed to send summary email", today) >> ]

\* the branch taken when the summary send returned False
SendFailedBranch(message_id, analysis, recipient, sent, errNet, fault, today) ==
    IF fault = "record"
    THEN ExceptClause(message_id, sent, errNet, fault, today)
    ELSE [ ret |-> "false", sends |-> sent,
           saves |-> << ProcessedEmail(message_id, analysis.action, analysis.reason,
                            recipient, FALSE, "Failed to send summary email", today) >> ]

\* a faulty variant: the failed record is written, nobody is notified
AnalysisFailedSilent(message_id, errNet, fault, today) ==
    IF fault = "record"
    THEN ExceptClause(message_id, << >>, errNet, fault, today)
    ELSE [ ret |-> "false", sends |-> << >>,
           saves |-> << ProcessedEmail(message_id, "Backend", "LLM analysis failed",
                            backend_team_email, FALSE, "LLM analysis failed",
                            today) >> ]

\* the branch taken when analyze_email returned None
AnalysisFailedBranch(message_id, errNet, fault, today) ==
    LET sent == << send_error_notification(errNet) >>
    IN  IF fault = "record"
        THEN ExceptClause(message_id, sent, errNet, fault, today)
        ELSE [ ret |-> "false", sends |-> sent,
               saves |-> << ProcessedEmail(message_id, "Backend", "LLM analysis failed",
                                backend_team_email, FALSE, "LLM analysis failed",
                                today) >> ]

\* ret: "true" / "false" as returned, "raise" when an exception leaves the
\* function; sends: the mails handed to the transport, in order; saves: the
\* records handed to save_processed_email, in order
process_single_email(message_id, analysis, sumNet, errNet, fault, today) ==
    IF analysis = NoAnalysis
    THEN AnalysisFailedBranch(message_id, errNet, fault, today)
    ELSE LET recipient == get_team_email(analysis.action)
         IN  IF fault = "from_analysis"
             THEN ExceptClause(message_id, << >>, errNet, fault, today)
             ELSE LET email_sent == send_summary_email(sumNet)
                      sent == << SentMail("summary", recipient, email_sent) >>
                  IN  IF ~email_sent.value
                      THEN SendFailedBranch(message_id, analysis, recipient, sent,
                                            errNet, fault, today)
                      ELSE IF fault = "record"
                      THEN ExceptClause(message_id, sent, errNet, fault, today)
                      ELSE [ ret |-> "true", sends |-> sent,
                             saves |-> << ProcessedEmail(message_id, analysis.action,
                                              analysis.reason, recipient, TRUE, "",
                                              today) >> ]

----------------------------------------------------------------------------
\* processor.py: process_alerts

NewResults ==
    [ processed_count |-> 0, successful_count |-> 0, failed_count |-> 0,
      skipped_count |-> 0, errors |-> << >> ]

\* the results when the fetch raises: the outer except clause appends the
\* critical error, the counters are as initialised
CriticalResults == [ NewResults EXCEPT !.errors = Append(@, "critical") ]

\* a faulty variant: a successful email is not counted as successful
TallyNoSuccess(res, ret) ==
    IF ret = "raise"
    THEN [ res EXCEPT !.errors = Append(@, "item"), !.failed_count = @ + 1 ]
    ELSE IF ret = "true"
    THEN [ res EXCEPT !.processed_count = @ + 1 ]
    ELSE [ res EXCEPT !.processed_count = @ + 1, !.failed_count = @ + 1 ]

\* the counters after one iteration of the for loop whose call ended in ret
Tally(res, ret) ==
    IF ret = "raise"
    THEN [ res EXCEPT !.errors = Append(@, "item"), !.failed_count = @ + 1 ]
    ELSE IF ret = "true"
    THEN [ res EXCEPT !.processed_count = @ + 1, !.successful_count = @ + 1 ]
    ELSE [ res EXCEPT !.processed_count = @ + 1, !.failed_count = @ + 1 ]

\* a faulty variant: the loop is left at the first email that fails
NextEmailBreak(i, ret) == IF ret = "true" THEN i + 1 ELSE i + MaxBatch + 1

\* the for loop moves to the next email whatever the iteration's outcome
NextEmail(i, ret) == i + 1

\* a faulty variant: mark_as_read is never called
MarksReadNever(ret) == FALSE

\* a faulty variant: every email that was processed is marked
MarksReadAlways(ret) == TRUE

\* mark_as_read is called for an email whose processing returned True
MarksRead(ret) == ret = "true"

\* mark_as_read: removes the UNREAD label unless the API call fails
mark_as_read(message_id, inbox, markOk) ==
    IF markOk THEN inbox \ { message_id } ELSE inbox

\* _filter_unprocessed_emails; readOk[m] says whether the log can be read
\* when m is looked up
filter_unprocessed_emails(list, file, readOk) ==
    SelectRows(list, [ i \in 1..Len(list) |->
                          ~check_duplicate(list[i], file, readOk[list[i]]) ])

RECURSIVE SaveAll(_, _, _)
SaveAll(saves, file, writeOk) ==
    IF saves = << >> THEN [ file |-> file, ret |-> TRUE ]
    ELSE LET one == save_processed_email(Head(saves), file, writeOk)
             rest == SaveAll(Tail(saves), one.file, writeOk)
         IN  [ file |-> rest.file, ret |-> one.ret /\ rest.ret ]

----------------------------------------------------------------------------
\* State machine

\* the transport outcomes tried for a send: every attempt succeeds, only the
\* first attempt fails, every attempt fails
NetOutcomes ==
    { [ n \in 1..retry_attempts |-> TRUE ],
      [ n \in 1..retry_attempts |-> n > 1 ],
      [ n \in 1..retry_attempts |-> FALSE ] }

\* attempt n of fetch_unread_emails raises: never, at the first attempt only,
\* at every attempt
FetchOutcomes ==
    { [ n \in 1..fetch_attempts |-> FALSE ],
      [ n \in 1..fetch_attempts |-> n = 1 ],
      [ n \in 1..fetch_attempts |-> TRUE ] }

AllOk == [ n \in 1..retry_attempts |-> TRUE ]

\* the inputs of one _process_single_email call, those the call does not
\* consult held fixed so that no step is enumerated twice
Consulted(analysis, fault, sumNet, errNet, writeOk, markOk) ==
    LET sends_summary == analysis # NoAnalysis /\ fault # "from_analysis"
        notifies == analysis = NoAnalysis \/ fault # "none"
        returns_true == sends_summary /\ sumNet[1] /\ fault = "none"
    IN  /\ analysis = NoAnalysis => fault # "from_analysis"
        /\ ~sends_summary => sumNet = AllOk
        /\ ~notifies => errNet = AllOk
        /\ fault = "record" => writeOk
        /\ ~returns_true => markOk

\* the arguments of a call of an EmailDatabase method, each << >> when the
\* method has no such argument, and its return value by type: a bool, an int,
\* a list of ProcessedEmail or a dict (kept as a list of at most one)
NoArgs ==
    [ processed_email |-> << >>, message_id |-> << >>, limit |-> << >>,
      action_filter |-> << >>, date_from |-> << >>, date_to |-> << >>,
      days_to_keep |-> << >> ]
NoRet == [ flag |-> FALSE, count |-> 0, rows |-> << >>, stats |-> << >> ]

\* a call of an EmailReader method: the outcomes of the provider call per
\* attempt and the ids it lists, or the payload of a message; its return: how
\* many attempts were made, whether it raised, the list or the body returned
NoReaderCall ==
    [ op |-> "none", raises |-> << >>, listed |-> << >>, payload |-> << >>,
      attempts |-> 0, raised |-> FALSE, emails |-> << >>, body |-> << >> ]

\* no EmailDatabase method has been called from the command line
NoDbCall == [ op |-> "none", args |-> NoArgs, ok |-> TRUE, ret |-> NoRet ]

NoCall ==
    [ message_id |-> << >>, analysis |-> NoAnalysis, ret |-> "none",
      sends |-> << >>, saves |-> << >>, written |-> FALSE, marked |-> FALSE,
      hadRow |-> FALSE, inLog |-> FALSE ]

\* everything but the mailbox
InitRest ==
    /\ csv = << >>
    /\ now = 0
    /\ pc = "idle"
    /\ emails = << >>
    /\ emails_to_process = << >>
    /\ idx = 1
    /\ results = NewResults
    /\ done = << >>
    /\ last = NoCall
    /\ recorded = {}
    /\ aborted = FALSE
    /\ caller = "none"
    /\ is_running = FALSE
    /\ stop_event = FALSE
    /\ jobs = 0
    /\ thread = "none"
    /\ db_call = NoDbCall
    /\ reader_call = NoReaderCall

\* no reply is being parsed
LlmIdle ==
    /\ response_text = << >>
    /\ parsed = Pending

Init ==
    /\ unread = MsgIds
    /\ InitRest
    /\ LlmIdle

\* a day passes (a cycle takes far less than a day)
Tick ==
    /\ pc = "idle"
    /\ now < MaxTime
    /\ now' = now + 1
    /\ UNCHANGED << unread, csv, recorded, aborted >>
    /\ UNCHANGED cycleVars
    /\ UNCHANGED schedVars
    /\ UNCHANGED llmVars
    /\ UNCHANGED reader_call
    /\ UNCHANGED db_call

\* process_alerts up to the for loop: fetch, filter, early returns.
\* fetchRaises[n]: attempt n of fetch_unread_emails raises; S: the unread
\* messages the fetch returns; readOk[m]: the log can be read when m is
\* looked up, drawn from ReadOutcomes.
ProcessAlerts(who, ReadOutcomes) ==
    /\ pc = "idle"
    /\ caller' = who
    /\ done' = << >>
    /\ last' = NoCall
    /\ idx' = 1
    /\ \E fetchRaises \in FetchOutcomes :
         LET fetch == Retrying(fetchRaises, 1, fetch_attempts)
         IN  IF fetch.raised
             THEN /\ results' = CriticalResults
                  /\ emails' = << >>
                  /\ emails_to_process' = << >>
                  /\ pc' = "returned"
             ELSE \E S \in SUBSET unread :
                    /\ Cardinality(S) <= MaxBatch
                    /\ \E readOk \in [ S -> ReadOutcomes ], list \in { ListOf(S) } :
                         \E todo \in { filter_unprocessed_emails(list, csv, readOk) } :
                             /\ Len(csv) + Len(todo) <= MaxRows
                             /\ emails' = list
                             /\ emails_to_process' = todo
                             /\ results' = [ NewResults EXCEPT
                                               !.skipped_count = Len(list) - Len(todo) ]
                             /\ pc' = IF todo = << >> THEN "returned" ELSE "loop"
    /\ UNCHANGED << unread, csv, now, recorded, aborted >>
    /\ UNCHANGED llmVars
    /\ UNCHANGED reader_call
    /\ UNCHANGED db_call

\* run_once: the health check passed, one cycle is run
RunOnce ==
    /\ caller = "none"
    /\ ProcessAlerts("once", { TRUE })
    /\ UNCHANGED schedVars

\* a faulty variant: the scheduler thread is started before the initial cycle
ThreadStartedFirst(t) == "alive"

\* the scheduler thread while start_scheduled_processing runs the initial
\* cycle: it is created and started only after that cycle has returned
ThreadAtStart(t) == t

\* start_scheduled_processing (called once, by run_daemon): schedule the job
\* and run the initial cycle
StartScheduledProcessing ==
    /\ caller = "none"
    /\ thread = "none"
    /\ ~is_running
    /\ jobs' = 1
    /\ thread' = ThreadAtStart(thread)
    /\ ProcessAlerts("initial", { TRUE })
    /\ UNCHANGED << is_running, stop_event >>

\* _scheduler_loop: run_pending starts the scheduled job
RunPending ==
    /\ caller = "none"
    /\ thread = "alive"
    /\ is_running
    /\ ~stop_event
    /\ jobs >= 1
    /\ ProcessAlerts("job", { TRUE })
    /\ UNCHANGED schedVars

\* one iteration of the for loop of process_alerts; after the last one
\* _log_processing_summary runs and the results are returned.  The analysis
\* of the email, the place where code raises and the outcome of the append to
\* the log are drawn from analyses, faults and writes.
ProcessEmail(analyses, faults, writes) ==
    /\ pc = "loop"
    /\ idx <= Len(emails_to_process)
    /\ \E analysis \in analyses, fault \in faults,
          sumNet \in NetOutcomes, errNet \in NetOutcomes,
          writeOk \in writes, markOk \in BOOLEAN :
         /\ Consulted(analysis, fault, sumNet, errNet, writeOk, markOk)
         /\ \E email_data \in { emails_to_process[idx] } :
            \E r \in { process_single_email(email_data, analysis, sumNet, errNet,
                                             fault, now) } :
             /\ csv' = SaveAll(r.saves, csv, writeOk).file
             /\ recorded' = IF csv' # csv THEN recorded \cup { email_data } ELSE recorded
             /\ results' = Tally(results, r.ret)
             /\ unread' = IF MarksRead(r.ret)
                          THEN mark_as_read(email_data, unread, markOk)
                          ELSE unread
             /\ done' = Append(done, email_data)
             /\ last' = [ message_id |-> email_data,
                          analysis   |-> analysis,
                          ret        |-> r.ret,
                          sends      |-> r.sends,
                          saves      |-> r.saves,
                          written    |-> csv' # csv,
                          marked     |-> MarksRead(r.ret),
                          hadRow     |-> email_data \in recorded,
                          inLog      |-> \E i \in 1..Len(csv) :
                                csv[i].original_message_id = email_data ]
             /\ idx' = NextEmail(idx, r.ret)
             /\ pc' = IF idx' > Len(emails_to_process) THEN "returned" ELSE "loop"
    /\ UNCHANGED << now, aborted, emails, emails_to_process, caller >>
    /\ UNCHANGED schedVars
    /\ UNCHANGED llmVars
    /\ UNCHANGED reader_call
    /\ UNCHANGED db_call

\* ... with every outcome the code allows for
ProcessNext == ProcessEmail(Analyses, Faults, BOOLEAN)

\* the daemon at a finer grain: _process_single_email has been entered for
\* the email at idx, nothing of it is done yet
InFlight(email_data) == [ NoCall EXCEPT !.message_id = email_data, !.ret = "running" ]

BeginEmail ==
    /\ pc = "loop"
    /\ idx <= Len(emails_to_process)
    /\ last.ret # "running"
    /\ last' = InFlight(emails_to_process[idx])
    /\ UNCHANGED << unread, csv, now, recorded, aborted, pc, emails,
                    emails_to_process, idx, results, done, caller >>
    /\ UNCHANGED schedVars
    /\ UNCHANGED llmVars
    /\ UNCHANGED reader_call
    /\ UNCHANGED db_call

\* ... and the call comes to its end
FinishEmail ==
    /\ last.ret = "running"
    /\ ProcessNext

\* process_alerts ended in its outer except clause
Critical(res) == \E i \in DOMAIN res.errors : res.errors[i] = "critical"

\* a faulty variant: a critical error ends the scheduler thread
ThreadDiesOnError(t, who, res) ==
    IF Critical(res) THEN "exited" ELSE IF who = "initial" THEN "alive" ELSE t

\* the scheduler thread once the caller has the results: started by
\* start_scheduled_processing after the initial cycle; _run_processing_cycle
\* and the while loop of _scheduler_loop go on whatever the results are
ThreadAfterCycle(t, who, res) == IF who = "initial" THEN "alive" ELSE t

\* the value run_once returns for the results of its cycle
run_once_returns(res) == res.successful_count > 0 \/ res.processed_count = 0

\* main, once mode: sys.exit(0 if success else 1)
exit_code(success) == IF success THEN 0 ELSE 1

\* the caller takes the returned results: run_once returns, the scheduled
\* job logs them, start_scheduled_processing starts the scheduler thread
AfterCycle ==
    /\ pc = "returned"
    /\ pc' = "idle"
    /\ caller' = "none"
    /\ emails' = << >>
    /\ emails_to_process' = << >>
    /\ idx' = 1
    /\ results' = NewResults
    /\ done' = << >>
    /\ last' = NoCall
    /\ aborted' = (aborted \/ (caller = "job" /\ Critical(results)))
    /\ is_running' = (is_running \/ caller = "initial")
    /\ thread' = ThreadAfterCycle(thread, caller, results)
    /\ UNCHANGED << unread, csv, now, recorded, stop_event, jobs >>
    /\ UNCHANGED llmVars
    /\ UNCHANGED reader_call
    /\ UNCHANGED db_call

\* stop(): clear the flag, set the event, clear the jobs
Stop ==
    /\ is_running
    /\ is_running' = FALSE
    /\ stop_event' = TRUE
    /\ jobs' = 0
    /\ UNCHANGED << unread, csv, now, recorded, aborted, thread >>
    /\ UNCHANGED cycleVars
    /\ UNCHANGED llmVars
    /\ UNCHANGED reader_call
    /\ UNCHANGED db_call

\* signal_handler while the main thread runs the initial cycle: stop() returns
\* at once (is_running is still False) and sys.exit(0) raises SystemExit in
\* the main thread, through process_alerts
SignalInInitialCycle ==
    /\ caller = "initial"
    /\ pc \in { "loop", "returned" }
    /\ ~is_running
    /\ pc' = "killed"
    /\ UNCHANGED << unread, csv, now, recorded, aborted, emails, emails_to_process,
                    idx, results, done, last, caller >>
    /\ UNCHANGED schedVars
    /\ UNCHANGED llmVars
    /\ UNCHANGED reader_call
    /\ UNCHANGED db_call

\* stop() has set the flags and waits in scheduler_thread.join(timeout=5); the
\* cycle of the scheduler thread takes longer, stop() returns, the main thread
\* exits and the daemon thread ends with it
JoinTimeout ==
    /\ thread = "alive"
    /\ stop_event
    /\ caller = "job"
    /\ pc \in { "loop", "returned" }
    /\ pc' = "killed"
    /\ thread' = "killed"
    /\ UNCHANGED << unread, csv, now, recorded, aborted, emails, emails_to_process,
                    idx, results, done, last, caller >>
    /\ UNCHANGED << is_running, stop_event, jobs >>
    /\ UNCHANGED llmVars
    /\ UNCHANGED reader_call
    /\ UNCHANGED db_call

\* _scheduler_loop leaves its while loop
ThreadExit ==
    /\ thread = "alive"
    /\ ~is_running \/ stop_event
    /\ caller # "job"
    /\ thread' = "exited"
    /\ UNCHANGED << unread, csv, now, recorded, aborted, is_running, stop_event,
                    jobs >>
    /\ UNCHANGED cycleVars
    /\ UNCHANGED llmVars
    /\ UNCHANGED reader_call
    /\ UNCHANGED db_call

\* cleanup mode of the command line, run between cycles
Cleanup ==
    /\ pc = "idle"
    /\ \E days_to_keep \in 0..MaxKeep, ioOk \in BOOLEAN :
         csv' = cleanup_old_records(days_to_keep, csv, now, ioOk).file
    /\ UNCHANGED << unread, now, recorded, aborted >>
    /\ UNCHANGED cycleVars
    /\ UNCHANGED schedVars
    /\ UNCHANGED llmVars
    /\ UNCHANGED reader_call
    /\ UNCHANGED db_call

\* one-shot runs of the command line (once and cleanup modes)
Next ==
    \/ Tick
    \/ RunOnce
    \/ ProcessNext
    \/ AfterCycle
    \/ Cleanup

Spec == Init /\ [][Next]_vars

\* the daemon: one message in the mailbox, cycles run by the scheduler
DaemonInit ==
    /\ unread \in { { m } : m \in MsgIds }
    /\ InitRest
    /\ LlmIdle

DaemonNext ==
    \/ Tick
    \/ StartScheduledProcessing
    \/ RunPending
    \/ BeginEmail
    \/ FinishEmail
    \/ AfterCycle
    \/ Stop
    \/ SignalInInitialCycle
    \/ JoinTimeout
    \/ ThreadExit
    \/ Cleanup

DaemonSpec == DaemonInit /\ [][DaemonNext]_vars

\* start_scheduled_processing called on a scheduler that was stopped before
\* and whose thread has left its loop: is_running is False, so the call goes
\* on; it clears and schedules the job and runs the initial cycle.  Nothing
\* in it clears stop_event.
StartAfterStop ==
    /\ caller = "none"
    /\ thread = "exited"
    /\ ~is_running
    /\ jobs' = 1
    /\ thread' = ThreadAtStart(thread)
    /\ ProcessAlerts("initial", { TRUE })
    /\ UNCHANGED << is_running, stop_event >>

\* start_scheduled_processing while is_running: logs a warning and returns
StartWhileRunning ==
    /\ is_running
    /\ UNCHANGED vars

\* the scheduler object driven by any sequence of start and stop calls
RestartNext ==
    \/ DaemonNext
    \/ StartAfterStop
    \/ StartWhileRunning

RestartSpec == DaemonInit /\ [][RestartNext]_vars

\* the classifier alone: a reply arrives and is parsed
ParseInit ==
    /\ unread = {}
    /\ InitRest
    /\ response_text \in Responses
    /\ parsed = Pending

ParseGeminiResponse ==
    /\ parsed = Pending
    /\ parsed' = parse_gemini_response(response_text)
    /\ UNCHANGED << response_text, unread, csv, now, recorded, aborted >>
    /\ UNCHANGED cycleVars
    /\ UNCHANGED schedVars
    /\ UNCHANGED db_call
    /\ UNCHANGED reader_call

NextResponse ==
    /\ parsed # Pending
    /\ response_text' \in Responses
    /\ parsed' = Pending
    /\ UNCHANGED << unread, csv, now, recorded, aborted >>
    /\ UNCHANGED cycleVars
    /\ UNCHANGED schedVars
    /\ UNCHANGED db_call
    /\ UNCHANGED reader_call

ParseNext ==
    \/ ParseGeminiResponse
    \/ NextResponse

ParseSpec == ParseInit /\ [][ParseNext]_vars

----------------------------------------------------------------------------
\* The methods of EmailDatabase called one after another on one file; db_call
\* holds a call and its return value until the caller has taken it

DbInit ==
    /\ unread = {}
    /\ InitRest
    /\ LlmIdle

\* the records saved: a routed alert of either message
DbRecords ==
    { ProcessedEmail(<<1, 7>>, "Backend", "db timeout", backend_team_email, TRUE, "", now),
      ProcessedEmail(<<10, 1>>, "Code", "db timeout", code_team_email, TRUE, "", now) }

Limits == { None } \cup { Some(n) : n \in 0..MaxRows }
ActionFilters == { None, Some("Backend"), Some("Code") }
Dates == { None } \cup { Some(d) : d \in 0..MaxTime }

DbCall(op, args, ok, ret) == [ op |-> op, args |-> args, ok |-> ok, ret |-> ret ]

SaveProcessedEmail ==
    /\ db_call.op = "none"
    /\ Len(csv) < MaxRows
    /\ \E processed_email \in DbRecords, writeOk \in BOOLEAN :
         \E r \in { save_processed_email(processed_email, csv, writeOk) } :
            /\ csv' = r.file
            /\ db_call' = DbCall("save_processed_email",
                                 [ NoArgs EXCEPT !.processed_email = << processed_email >> ],
                                 writeOk, [ NoRet EXCEPT !.flag = r.ret ])
    /\ UNCHANGED << unread, now, recorded, aborted >>
    /\ UNCHANGED cycleVars
    /\ UNCHANGED schedVars
    /\ UNCHANGED llmVars
    /\ UNCHANGED reader_call

CheckDuplicate ==
    /\ db_call.op = "none"
    /\ \E message_id \in MsgIds, readOk \in BOOLEAN :
         db_call' = DbCall("check_duplicate",
                           [ NoArgs EXCEPT !.message_id = message_id ], readOk,
                           [ NoRet EXCEPT !.flag = check_duplicate(message_id, csv, readOk) ])
    /\ UNCHANGED << unread, csv, now, recorded, aborted >>
    /\ UNCHANGED cycleVars
    /\ UNCHANGED schedVars
    /\ UNCHANGED llmVars
    /\ UNCHANGED reader_call

\* a read failure is tried with the plain call only
GetProcessedEmails ==
    /\ db_call.op = "none"
    /\ \E limit \in Limits, action_filter \in ActionFilters,
          date_from \in Dates, date_to \in Dates, ioOk \in BOOLEAN :
         /\ ~ioOk => limit = None /\ action_filter = None
                        /\ date_from = None /\ date_to = None
         /\ db_call' = DbCall("get_processed_emails",
                              [ NoArgs EXCEPT !.limit = limit,
                                              !.action_filter = action_filter,
                                              !.date_from = date_from,
                                              !.date_to = date_to ],
                              ioOk,
                              [ NoRet EXCEPT !.rows =
                                   get_processed_emails(limit, action_filter, date_from,
                                                        date_to, csv, ioOk) ])
    /\ UNCHANGED << unread, csv, now, recorded, aborted >>
    /\ UNCHANGED cycleVars
    /\ UNCHANGED schedVars
    /\ UNCHANGED llmVars
    /\ UNCHANGED reader_call

GetProcessingStats ==
    /\ db_call.op = "none"
    /\ \E ioOk \in BOOLEAN :
         \E stats \in { get_processing_stats(csv, now, ioOk) } :
            db_call' = DbCall("get_processing_stats", NoArgs, ioOk,
                              [ NoRet EXCEPT !.stats = IF DOMAIN stats = {} THEN << >>
                                                       ELSE << stats >> ])
    /\ UNCHANGED << unread, csv, now, recorded, aborted >>
    /\ UNCHANGED cycleVars
    /\ UNCHANGED schedVars
    /\ UNCHANGED llmVars
    /\ UNCHANGED reader_call

CleanupOldRecords ==
    /\ db_call.op = "none"
    /\ \E days_to_keep \in 0..MaxKeep, ioOk \in BOOLEAN :
         \E r \in { cleanup_old_records(days_to_keep, csv, now, ioOk) } :
            /\ csv' = r.file
            /\ db_call' = DbCall("cleanup_old_records",
                                 [ NoArgs EXCEPT !.days_to_keep = << days_to_keep >> ],
                                 ioOk, [ NoRet EXCEPT !.count = r.ret ])
    /\ UNCHANGED << unread, now, recorded, aborted >>
    /\ UNCHANGED cycleVars
    /\ UNCHANGED schedVars
    /\ UNCHANGED llmVars
    /\ UNCHANGED reader_call

\* the caller has taken the return value
DbReturn ==
    /\ db_call.op # "none"
    /\ db_call' = NoDbCall
    /\ UNCHANGED << unread, csv, now, recorded, aborted >>
    /\ UNCHANGED cycleVars
    /\ UNCHANGED schedVars
    /\ UNCHANGED llmVars
    /\ UNCHANGED reader_call

DbNext ==
    \/ Tick
    \/ SaveProcessedEmail
    \/ CheckDuplicate
    \/ GetProcessedEmails
    \/ GetProcessingStats
    \/ CleanupOldRecords
    \/ DbReturn

DbSpec == DbInit /\ [][DbNext]_vars

----------------------------------------------------------------------------
\* Cycle after cycle on a mailbox with one unread message more than a batch
\* holds; every fetch succeeds, the log can be read and written, no code
\* raises; an email is analysed as a Backend alert or not at all; sends and
\* mark_as_read succeed or fail

\* ids that read_csv keeps as strings ("a1", "a2", ...)
StarveInbox == { << 10, k >> : k \in 1..(MaxBatch + 1) }

\* messages().list(q="is:unread in:inbox", maxResults=max_results): the first
\* page of the provider's listing of the unread messages (the order of ids
\* stands for the provider's order, which is the same at every call); no
\* further page is asked for
list_page(inbox, max_results) ==
    LET listing == ListOf(inbox)
    IN  SubSeq(listing, 1, IF Len(listing) < max_results
                           THEN Len(listing) ELSE max_results)

StarveAnalyses == { NoAnalysis, [ action |-> "Backend", reason |-> "db timeout" ] }

StarveInit ==
    /\ unread = StarveInbox
    /\ InitRest
    /\ LlmIdle

\* process_alerts up to the for loop, the fetch returning the first page
StarveCycle ==
    /\ pc = "idle"
    /\ caller = "none"
    /\ caller' = "once"
    /\ done' = << >>
    /\ last' = NoCall
    /\ idx' = 1
    /\ \E list \in { list_page(unread, MaxBatch) } :
       \E todo \in { filter_unprocessed_emails(list, csv, [ m \in unread |-> TRUE ]) } :
         /\ emails' = list
         /\ emails_to_process' = todo
         /\ results' = [ NewResults EXCEPT !.skipped_count = Len(list) - Len(todo) ]
         /\ pc' = IF todo = << >> THEN "returned" ELSE "loop"
    /\ UNCHANGED << unread, csv, now, recorded, aborted >>
    /\ UNCHANGED schedVars
    /\ UNCHANGED llmVars
    /\ UNCHANGED reader_call
    /\ UNCHANGED db_call

StarveProcess == ProcessEmail(StarveAnalyses, { "none" }, { TRUE })

StarveNext ==
    \/ StarveCycle
    \/ StarveProcess
    \/ AfterCycle

\* a cycle is started again and again and every cycle started runs to its end
StarveSpec == StarveInit /\ [][StarveNext]_vars /\ WF_vars(StarveNext)

----------------------------------------------------------------------------
\* Two processes on one audit file: one runs cleanup_old_records, which reads
\* the file, filters the rows in memory and writes the file anew; the other
\* appends rows with save_processed_email at any time

\* a faulty variant: the rewrite keeps the rows appended since the file was
\* read (initial_count rows)
to_csv_keeps_appended(df_filtered, file, initial_count) ==
    df_filtered \o SubSeq(file, initial_count + 1, Len(file))

\* df_filtered.to_csv(self.db_path, index=False): the file is opened for
\* writing, truncated, and holds the rows of the DataFrame
to_csv(df_filtered, file, initial_count) == df_filtered

\* save_processed_email of the processor's process
ConcurrentSave ==
    /\ Len(csv) < MaxRows
    /\ \E processed_email \in DbRecords :
         /\ csv' = save_processed_email(processed_email, csv, TRUE).file
         /\ recorded' = recorded \cup { processed_email.original_message_id }
    /\ UNCHANGED << unread, now, aborted >>
    /\ UNCHANGED cycleVars
    /\ UNCHANGED schedVars
    /\ UNCHANGED llmVars
    /\ UNCHANGED << db_call, reader_call >>

\* cleanup_old_records up to df_filtered: the rows read and filtered are held
\* in memory (ret.rows), with len(df) as read (ret.count)
CleanupRead ==
    /\ db_call.op = "none"
    /\ csv # << >>
    /\ ~to_datetime(ProcessedAtColumn(csv)).raised
    /\ \E days_to_keep \in 0..MaxKeep :
         db_call' = DbCall("read_csv",
                           [ NoArgs EXCEPT !.days_to_keep = << days_to_keep >> ], TRUE,
                           [ NoRet EXCEPT
                               !.rows = cleanup_old_records(days_to_keep, csv, now, TRUE).file,
                               !.count = Len(csv) ])
    /\ UNCHANGED << unread, csv, now, recorded, aborted >>
    /\ UNCHANGED cycleVars
    /\ UNCHANGED schedVars
    /\ UNCHANGED llmVars
    /\ UNCHANGED reader_call

\* ... and from to_csv to the return of removed_count
CleanupWrite ==
    /\ db_call.op = "read_csv"
    /\ csv' = to_csv(db_call.ret.rows, csv, db_call.ret.count)
    /\ db_call' = DbCall("cleanup_old_records", db_call.args, TRUE,
                         [ NoRet EXCEPT !.count = db_call.ret.count
                                                    - Len(db_call.ret.rows) ])
    /\ UNCHANGED << unread, now, recorded, aborted >>
    /\ UNCHANGED cycleVars
    /\ UNCHANGED schedVars
    /\ UNCHANGED llmVars
    /\ UNCHANGED reader_call

\* the cleanup process has its return value
CleanupReturn ==
    /\ db_call.op = "cleanup_old_records"
    /\ db_call' = NoDbCall
    /\ UNCHANGED << unread, csv, now, recorded, aborted >>
    /\ UNCHANGED cycleVars
    /\ UNCHANGED schedVars
    /\ UNCHANGED llmVars
    /\ UNCHANGED reader_call

RaceNext ==
    \/ Tick
    \/ ConcurrentSave
    \/ CleanupRead
    \/ CleanupWrite
    \/ CleanupReturn

RaceSpec == DbInit /\ [][RaceNext]_vars

----------------------------------------------------------------------------
\* The methods of EmailReader called one after another; reader_call holds a
\* call and its return value until the caller has taken it

ReaderInit ==
    /\ unread = MsgIds
    /\ InitRest
    /\ LlmIdle

\* the provider call of each attempt raises or not
AttemptOutcomes == [ 1..fetch_attempts -> BOOLEAN ]

\* the texts a part may carry, encoded
Texts == { << " ", "a" >>, << "<t>", "b", " " >> }
PartData == { << >> } \cup { << [ b64 |-> t ] >> : t \in Texts }
MimeTypes == { "text/plain", "text/html", "image/png" }
Parts == [ mimeType : MimeTypes, data : PartData ]

\* the payloads: a single part, or a multipart message of up to MaxParts parts
PartLists == UNION { [ 1..n -> Parts ] : n \in 0..MaxParts }
Payloads ==
    { [ multipart |-> FALSE, mimeType |-> part.mimeType, data |-> part.data,
        parts |-> << >> ] : part \in Parts }
    \cup { [ multipart |-> TRUE, mimeType |-> "multipart/mixed", data |-> << >>,
             parts |-> parts ] : parts \in PartLists }

FetchUnreadEmails ==
    /\ reader_call.op = "none"
    /\ \E raises \in AttemptOutcomes, S \in SUBSET unread :
         \E r \in { fetch_unread_emails(raises, ListOf(S)) } :
            reader_call' = [ NoReaderCall EXCEPT
                               !.op = "fetch_unread_emails",
                               !.raises = raises, !.listed = ListOf(S),
                               !.attempts = r.attempts, !.raised = r.raised,
                               !.emails = r.emails ]
    /\ UNCHANGED << unread, csv, now, recorded, aborted >>
    /\ UNCHANGED cycleVars
    /\ UNCHANGED schedVars
    /\ UNCHANGED llmVars
    /\ UNCHANGED db_call

ExtractEmailBody ==
    /\ reader_call.op = "none"
    /\ \E payload \in Payloads :
         reader_call' = [ NoReaderCall EXCEPT
                            !.op = "_extract_email_body",
                            !.payload = << payload >>,
                            !.body = extract_email_body(payload) ]
    /\ UNCHANGED << unread, csv, now, recorded, aborted >>
    /\ UNCHANGED cycleVars
    /\ UNCHANGED schedVars
    /\ UNCHANGED llmVars
    /\ UNCHANGED db_call

\* the caller has taken the return value
ReaderReturn ==
    /\ reader_call.op # "none"
    /\ reader_call' = NoReaderCall
    /\ UNCHANGED << unread, csv, now, recorded, aborted >>
    /\ UNCHANGED cycleVars
    /\ UNCHANGED schedVars
    /\ UNCHANGED llmVars
    /\ UNCHANGED db_call

ReaderNext ==
    \/ FetchUnreadEmails
    \/ ExtractEmailBody
    \/ ReaderReturn

ReaderSpec == ReaderInit /\ [][ReaderNext]_vars

----------------------------------------------------------------------------
\* Properties

\* the latest iteration of the for loop has called _process_single_email
Called == last.ret # "none"

\* this step is one iteration of the for loop
Iteration == pc = "loop" /\ done' # done

\* the except clause of _process_single_email ran in the latest call
Unexpected ==
    \/ last.ret = "raise"
    \/ \E i \in DOMAIN last.saves : last.saves[i].reason = "Processing error"

\* an error notification to the backend team was handed to the transport
Notified ==
    \E i \in DOMAIN last.sends :
        /\ last.sends[i].kind = "error"
        /\ last.sends[i].recipient = backend_team_email

\* the latest call sent the summary, and nothing else, with result ok
OnlySummary(ok) ==
    /\ Called
    /\ last.analysis # NoAnalysis
    /\ Len(last.sends) = 1
    /\ last.sends[1].kind = "summary"
    /\ last.sends[1].ok = ok

\* the step appends the one record of the call to the log, or leaves the log
\* as it is when the write fails
AppendsTheRecord ==
    /\ Len(last'.saves) = 1
    /\ IF last'.written
       THEN csv' = Append(csv, CsvRow(last'.saves[1]))
       ELSE csv' = csv

\* the cycle of one fetched email, not in the log, classified Backend and
\* sent, has returned
OneBackendSent ==
    /\ pc = "returned"
    /\ Len(emails) = 1
    /\ OnlySummary(TRUE)
    /\ ~last.inLog
    /\ last.analysis.action = "Backend"

\* C1: a cycle that fetches one unread email whose id is not in the audit
\* log, gets a Backend analysis and sends the summary, hands the email to
\* processing (it is not skipped), returns processed 1, successful 1, failed
\* 0, skipped 0, appends exactly one row, success true and action Backend,
\* and calls mark_as_read for the message.
C1_EndToEndSuccess ==
    /\ [](OneBackendSent =>
            /\ results = [ NewResults EXCEPT !.processed_count = 1,
                                             !.successful_count = 1 ]
            /\ last.message_id = emails[1]
            /\ Len(last.saves) = 1
            /\ last.saves[1].original_message_id = emails[1]
            /\ last.saves[1].success
            /\ last.saves[1].action_taken = "Backend"
            /\ last.marked)
    /\ [][ /\ Iteration /\ OneBackendSent' =>
               /\ AppendsTheRecord
               /\ unread' \in { unread, unread \ { last'.message_id } }
           /\ (/\ pc = "idle"
               /\ pc' # "idle"
               /\ Len(emails') = 1
               /\ \A i \in 1..Len(csv) : csv[i].original_message_id # emails'[1])
              => emails_to_process' = emails' ]_vars

C1_Reached ==
    /\ OneBackendSent
    /\ last.written
    /\ csv # << >>
    /\ csv[Len(csv)] = CsvRow(last.saves[1])
    /\ last.message_id \notin unread

\* the latest call got no analysis and its except clause did not run
ClassificationFailed == Called /\ last.analysis = NoAnalysis /\ ~Unexpected

\* C2: when the classifier yields no analysis for the one unprocessed email
\* of a cycle, the cycle returns processed 1, successful 0, failed 1, exactly
\* one row is appended with success false, action Backend and a non-empty
\* error message, an error notification is attempted, and mark_as_read is not
\* called: the message stays unread.
C2_ClassificationFailure ==
    /\ [](ClassificationFailed =>
            /\ last.ret = "false"
            /\ Len(last.saves) = 1
            /\ last.saves[1].original_message_id = last.message_id
            /\ ~last.saves[1].success
            /\ last.saves[1].action_taken = "Backend"
            /\ last.saves[1].error_message # ""
            /\ Notified
            /\ ~last.marked
            /\ (pc = "returned" /\ Len(emails_to_process) = 1 =>
                  /\ results.processed_count = 1
                  /\ results.successful_count = 0
                  /\ results.failed_count = 1
                  /\ results.errors = << >>))
    /\ [][Iteration /\ ClassificationFailed' =>
            /\ AppendsTheRecord
            /\ unread' = unread]_vars

C2_Reached ==
    /\ ClassificationFailed
    /\ pc = "returned"
    /\ Len(emails_to_process) = 1
    /\ last.written
    /\ csv[Len(csv)] = CsvRow(last.saves[1])
    /\ last.message_id \in unread

\* C3: an email that has, or once had, a row in the audit log is never handed
\* to processing again, whatever cycles and cleanups came in between.
C3_NoRetryAcrossCycles == Called => ~last.inLog /\ ~last.hadRow

\* C4: check_duplicate(k) is true exactly when the log holds a row whose
\* original_message_id is k.
C4_DuplicateLookup ==
    \A k \in MsgIds :
        check_duplicate(k, csv, TRUE)
            <=> \E i \in 1..Len(csv) : csv[i].original_message_id = k

\* C5: the for loop hands the emails of the batch to processing one by one,
\* in order and each once, whatever the earlier calls ended in; when the cycle
\* returns, all of the batch has been handed over.
C5_NoEarlyAbort ==
    /\ Len(done) <= Len(emails_to_process)
    /\ done = SubSeq(emails_to_process, 1, Len(done))
    /\ pc = "loop" => idx = Len(done) + 1 /\ idx <= Len(emails_to_process)
    /\ pc = "returned" => done = emails_to_process

C5_Reached ==
    /\ pc = "returned"
    /\ Len(done) = 2
    /\ done = emails_to_process
    /\ results.failed_count = 1
    /\ last.ret = "true"

\* C6: a fetch that raises aborts the cycle only: process_alerts returns with
\* all four counters 0 and one critical error, mailbox and log untouched; the
\* caller goes on (the initial cycle is followed by the start of the scheduler
\* thread, a scheduled cycle leaves the scheduler as it was), and afterwards,
\* unless the scheduler is stopped, the next scheduled cycle can start.
C6_CriticalAbortsCycleOnly ==
    /\ [](pc = "returned" /\ Critical(results) =>
            /\ results = [ NewResults EXCEPT !.errors = << "critical" >> ]
            /\ done = << >>)
    /\ [][ /\ pc = "idle" /\ Critical(results') =>
               /\ pc' = "returned"
               /\ unread' = unread
               /\ csv' = csv
           /\ pc = "returned" /\ Critical(results) /\ pc' = "idle" =>
               /\ caller = "job" => UNCHANGED schedVars
               /\ caller = "initial" =>
                    is_running' /\ thread' = "alive" /\ jobs' >= 1 ]_vars
    /\ [](aborted /\ pc = "idle" /\ is_running /\ ~stop_event =>
            thread = "alive" /\ jobs >= 1 /\ ENABLED RunPending)

C6_Reached ==
    /\ aborted
    /\ pc = "returned"
    /\ caller = "job"
    /\ results.successful_count = 1

\* C7 as stated: every call that ends in a failure has attempted an error
\* notification to the backend team.
C7_EveryFailureNotifies == last.ret \in { "false", "raise" } => Notified

\* C7, amended: a call that got no analysis, or whose except clause ran, has
\* attempted an error notification to the backend team; a call whose summary
\* send returned False (and nothing raised) has attempted none; a notification
\* never raises into the call, and the cycle goes on after one that failed.
C7_NotifiesUnlessSendFailed ==
    /\ Called /\ (last.analysis = NoAnalysis \/ Unexpected) => Notified
    /\ OnlySummary(FALSE) => last.ret = "false" /\ ~Notified
    /\ \A i \in DOMAIN last.sends :
          last.sends[i].kind = "error" =>
             /\ last.sends[i].recipient = backend_team_email
             /\ ~last.sends[i].raised
             /\ ~Critical(results)
             /\ pc = "returned" => done = emails_to_process

C7_Reached ==
    /\ Called
    /\ last.analysis = NoAnalysis
    /\ Notified
    /\ ~last.sends[1].ok
    /\ pc = "loop"

\* C8: a send that reports failure has been attempted retry_attempts times.
C8_SendRetried ==
    \A i \in DOMAIN last.sends :
        ~last.sends[i].ok => last.sends[i].attempts = retry_attempts

\* C9: when the classification succeeded and the summary send returned False,
\* exactly one row is appended, with success false, the classifier's action
\* and reason and the recipient the summary was addressed to; the email is
\* counted as failed, mark_as_read is not called, and the loop goes on to
\* the next email.
C9_SendFailure ==
    /\ [](OnlySummary(FALSE) =>
            /\ last.ret = "false"
            /\ Len(last.saves) = 1
            /\ last.saves[1].original_message_id = last.message_id
            /\ ~last.saves[1].success
            /\ last.saves[1].action_taken = last.analysis.action
            /\ last.saves[1].reason = last.analysis.reason
            /\ last.saves[1].sent_to_team = last.sends[1].recipient
            /\ ~last.marked
            /\ Len(done) < Len(emails_to_process) => pc = "loop")
    /\ [][Iteration /\ OnlySummary(FALSE)' =>
            /\ AppendsTheRecord
            /\ results' = [ results EXCEPT !.processed_count = @ + 1,
                                           !.failed_count = @ + 1 ]
            /\ unread' = unread
            /\ idx' = idx + 1]_vars

C9_Reached ==
    /\ OnlySummary(FALSE)
    /\ last.analysis.action = "Code"
    /\ last.written
    /\ csv[Len(csv)] = CsvRow(last.saves[1])
    /\ pc = "loop"

\* the routing table
Route(action) ==
    CASE action = "Re-hit"  -> rehit_team_email
      [] action = "Backend" -> backend_team_email
      [] action = "Code"    -> code_team_email
      [] OTHER              -> backend_team_email

\* C10: get_team_email maps "Re-hit" to the rehit address, "Backend" to the
\* backend address, "Code" to the code address and any other string to the
\* backend address; every summary goes to the address of its analysis' action.
C10_Routing ==
    /\ \A action \in ActionType \cup OtherActions :
          get_team_email(action) = Route(action)
    /\ \A i \in DOMAIN last.sends :
          last.sends[i].kind = "summary" =>
             last.sends[i].recipient = Route(last.analysis.action)

C10_Reached ==
    /\ Called
    /\ last.analysis.action = "Re-hit"
    /\ last.sends # << >>
    /\ last.sends[1].kind = "summary"
    /\ last.sends[1].recipient = rehit_team_email

\* the reply has a "{" and a "}"
HasPair(text) ==
    /\ \E i \in 1..Len(text) : text[i] = Brace("{")
    /\ \E i \in 1..Len(text) : text[i] = Brace("}")

\* the text from the first "{" to the last "}"
Extracted(text) == SubSeq(text, Find(text, "{"), RFind(text, "}"))

\* the extracted text is a JSON object
IsObject(text) == HasPair(text) /\ ~json_loads(Extracted(text)).raised
ObjectOf(text) == json_loads(Extracted(text)).value

\* the object carries a valid action and a valid reason
ValidActionReason(text) ==
    /\ IsObject(text)
    /\ "action" \in DOMAIN ObjectOf(text)
    /\ "reason" \in DOMAIN ObjectOf(text)
    /\ ObjectOf(text)["action"] \in { "Re-hit", "Backend", "Code" }
    /\ ~IsBlank(ObjectOf(text)["reason"])

\* the object's confidence is a number outside [0, 1]
ConfidenceOutOfRange(text) ==
    /\ IsObject(text)
    /\ "confidence" \in DOMAIN ObjectOf(text)
    /\ ObjectOf(text)["confidence"] \in { "-0.1", "1.5" }

\* C11: parsing never raises into the caller, and it yields no result when
\* the reply has no brace pair, when the extracted text is not valid JSON,
\* when action or reason is missing, when the action is not one of the three,
\* and when the model validation fails (blank reason, confidence outside
\* [0, 1]).
C11_ParseFailuresYieldNone ==
    parsed # Pending =>
        /\ parsed.kind # "raise"
        /\ ~HasPair(response_text) => parsed = NoResult
        /\ ~IsObject(response_text) => parsed = NoResult
        /\ ~ValidActionReason(response_text) => parsed = NoResult
        /\ ConfidenceOutOfRange(response_text) => parsed = NoResult

C11_Reached ==
    /\ parsed = NoResult
    /\ ValidActionReason(response_text)
    /\ ConfidenceOutOfRange(response_text)

\* C12: a reply whose object has a valid action and reason and no confidence
\* member yields an analysis with confidence 0.8; a confidence that is given
\* (and valid) is returned as given, a null as None.
C12_DefaultConfidence ==
    parsed # Pending /\ ValidActionReason(response_text)
                     /\ ~ConfidenceOutOfRange(response_text) =>
        /\ parsed.kind = "analysis"
        /\ parsed.action = ObjectOf(response_text)["action"]
        /\ parsed.reason = ObjectOf(response_text)["reason"]
        /\ parsed.confidence =
              IF "confidence" \notin DOMAIN ObjectOf(response_text) THEN "0.8"
              ELSE IF ObjectOf(response_text)["confidence"] = "null" THEN "None"
              ELSE ObjectOf(response_text)["confidence"]

C12_Reached ==
    /\ parsed.kind = "analysis"
    /\ "confidence" \notin DOMAIN ObjectOf(response_text)
    /\ parsed.confidence = "0.8"

\* what get_processing_stats reports for the log as it is
StatsNow == get_processing_stats(csv, now, TRUE)

\* C13: for every content of the audit log get_processing_stats reports
\* successful + failed = total_processed, total_processed the number of rows,
\* and success_rate = successful / total_processed * 100, which is 0 when the
\* log holds no records.
C13_StatsConsistent ==
    /\ DOMAIN StatsNow # {}
    /\ StatsNow.total_processed = Len(csv)
    /\ StatsNow.successful + StatsNow.failed = StatsNow.total_processed
    /\ StatsNow.success_rate.num * StatsNow.total_processed
          = StatsNow.successful * 100 * StatsNow.success_rate.den
    /\ csv = << >> => StatsNow.success_rate.num = 0

\* the same over the logs that hold a record: the second way C13 fails
C13_StatsOfNonEmptyLog == csv # << >> => DOMAIN StatsNow # {}

\* the rows of a log with their timestamps as days: two rows are the same
\* record when they agree on every field, the timestamps compared as instants
AsRecords(file) ==
    [ i \in 1..Len(file) |-> [ file[i] EXCEPT !.processed_at = @.day ] ]

\* the rows at or after the cutoff, in order
NotExpired(file, cutoff) ==
    SelectRows(file, [ i \in 1..Len(file) |-> file[i].processed_at.day >= cutoff ])

\* C14: cleanup_old_records(d) removes exactly the rows older than now - d,
\* keeps the others as they are and in order, and returns the number of rows
\* it removed.
C14_CleanupRemovesExpired ==
    \A d \in 0..MaxKeep :
        LET r == cleanup_old_records(d, csv, now, TRUE)
        IN  /\ AsRecords(r.file) = AsRecords(NotExpired(csv, now - d))
            /\ r.ret = Len(csv) - Len(r.file)
            /\ r.ret = Len(csv) - Len(NotExpired(csv, now - d))

\* the cycle of a once-mode run has returned
OnceReturned == pc = "returned" /\ caller = "once"

\* C15: in once mode the exit code is 1 when the cycle ended in a critical
\* error or an email failed processing, and 0 when the cycle succeeded or
\* had nothing to process.
C15_ExitCode ==
    OnceReturned =>
        exit_code(run_once_returns(results))
            = IF Critical(results) \/ results.failed_count > 0 THEN 1 ELSE 0

\* a processing cycle is being executed
CycleInFlight == pc \in { "loop", "returned" }

\* C16: in daemon mode no two cycles execute at once. While the main thread
\* runs the initial cycle the scheduler thread does not exist and is_running
\* is still False, so nothing can trigger a second cycle; a triggered cycle
\* runs inside the one scheduler thread, after the initial cycle has returned,
\* and while it runs neither that thread nor the main thread can start another.
C16_CyclesSerialized ==
    /\ CycleInFlight => caller \in { "initial", "job" }
    /\ caller = "initial" =>
          /\ thread = "none"
          /\ ~is_running
          /\ ~ENABLED RunPending
    /\ caller = "job" =>
          /\ thread \in { "alive", "killed" }
          /\ ~ENABLED StartScheduledProcessing
          /\ ~ENABLED RunPending

C16_Reached ==
    /\ caller = "job"
    /\ pc = "loop"
    /\ last.ret = "running"
    /\ thread = "alive"
    /\ is_running
    /\ jobs >= 1

\* the process has ended on a shutdown signal while a cycle was in flight
KilledInFlight == pc = "killed"

\* C17: when a shutdown signal arrives while a cycle is in flight, the email
\* being processed is carried through to its audit record before the
\* scheduler loop exits and the process terminates: the process never ends
\* with an email entered and not finished.
C17_GracefulStop == KilledInFlight => last.ret # "running"

\* a record as _process_single_email builds them
SomeRecord(m) ==
    ProcessedEmail(m, "Backend", "LLM analysis failed", backend_team_email, FALSE,
                   "LLM analysis failed", now)

\* every lookup of the batch fails to read the log
NoneReadable(S) == [ m \in S |-> FALSE ]

\* the latest call handed a record to save_processed_email and no row was
\* written
SaveFailed == Called /\ last.saves # << >> /\ ~last.written

\* C18: a failure to read, write or parse the audit log does not propagate.
\* With the file failing, save_processed_email returns False and writes
\* nothing, check_duplicate returns False (so the filter keeps every email),
\* get_processed_emails returns the empty list, cleanup_old_records returns 0
\* and leaves the file, get_processing_stats returns the empty dict; the same
\* holds when the timestamp column cannot be parsed.  A call whose save failed
\* returns as it would have, and the for loop goes on to the next email.
C18_FailuresDoNotPropagate ==
    /\ \A m \in MsgIds :
          /\ save_processed_email(SomeRecord(m), csv, FALSE)
                = [ file |-> csv, ret |-> FALSE ]
          /\ ~check_duplicate(m, csv, FALSE)
    /\ filter_unprocessed_emails(emails, csv, NoneReadable(MsgIds)) = emails
    /\ get_processed_emails(Some(1), None, Some(0), None, csv, FALSE) = << >>
    /\ \A d \in 0..MaxKeep :
          cleanup_old_records(d, csv, now, FALSE) = [ file |-> csv, ret |-> 0 ]
    /\ get_processing_stats(csv, now, FALSE) = EmptyDict
    /\ to_datetime(ProcessedAtColumn(csv)).raised =>
          /\ get_processing_stats(csv, now, TRUE) = EmptyDict
          /\ \A d \in 0..MaxKeep :
                cleanup_old_records(d, csv, now, TRUE) = [ file |-> csv, ret |-> 0 ]
          /\ get_processed_emails(None, None, Some(0), None, csv, TRUE) = << >>
    /\ SaveFailed =>
          /\ last.ret \in { "true", "false" }
          /\ last.ret = "true" <=> last.saves[Len(last.saves)].success
          /\ ~Critical(results)
          /\ pc \in { "loop", "returned" }
          /\ pc = "loop" => idx = Len(done) + 1 /\ idx <= Len(emails_to_process)
          /\ pc = "returned" => done = emails_to_process

C18_Reached ==
    /\ SaveFailed
    /\ last.ret = "true"
    /\ pc = "loop"
    /\ idx = 2

\* this step is a call of the EmailDatabase method op
Calls(op) == db_call.op = "none" /\ db_call'.op = op

\* C19: the audit log is append-only.  A save_processed_email that succeeds
\* adds exactly one row, at the end, and leaves every row there was as it
\* was (one that fails leaves the file); check_duplicate, get_processed_emails
\* and get_processing_stats leave the file unchanged; a step that removes a
\* row is a cleanup_old_records, and no step but a save or a cleanup changes
\* the file.
C19_AppendOnly ==
    [][ /\ Calls("save_processed_email") =>
              IF db_call'.ret.flag
              THEN /\ Len(csv') = Len(csv) + 1
                   /\ SubSeq(csv', 1, Len(csv)) = csv
                   /\ csv'[Len(csv')] = CsvRow(db_call'.args.processed_email[1])
              ELSE csv' = csv
        /\ \/ Calls("check_duplicate")
           \/ Calls("get_processed_emails")
           \/ Calls("get_processing_stats") => csv' = csv
        /\ Len(csv') < Len(csv) => Calls("cleanup_old_records")
        /\ csv' # csv =>
              Calls("save_processed_email") \/ Calls("cleanup_old_records") ]_vars

C19_Reached ==
    /\ db_call.op = "save_processed_email"
    /\ db_call.ret.flag
    /\ Len(csv) = 2
    /\ csv[1].processed_at.sep = " "

\* the rows of the log, by number, that pass the action and date-range filters
Matching(file, action_filter, date_from, date_to) ==
    SelectRows([ i \in 1..Len(file) |-> i ],
               [ i \in 1..Len(file) |->
                    /\ action_filter # None => file[i].action_taken = action_filter[1]
                    /\ date_from # None => file[i].processed_at.day >= date_from[1]
                    /\ date_to # None => file[i].processed_at.day <= date_to[1] ])

\* the last n of a list, all of it when it has fewer
LastN(rows, n) ==
    [ k \in 1..(IF n < Len(rows) THEN n ELSE Len(rows)) |->
         rows[k + (IF n < Len(rows) THEN Len(rows) - n ELSE 0)] ]

\* C20: get_processed_emails with limit N returns the last N, in log order,
\* of the rows that pass the action and date-range filters, and all of them
\* when fewer than N pass.
C20_LimitIsLastN ==
    /\ db_call.op = "get_processed_emails"
    /\ db_call.ok
    /\ db_call.args.limit # None
    => LET expected == LastN(Matching(csv, db_call.args.action_filter,
                                      db_call.args.date_from, db_call.args.date_to),
                             db_call.args.limit[1])
       IN  db_call.ret.rows = [ k \in 1..Len(expected) |-> RowObject(csv, expected[k]) ]

\* C21: every email that enters processing ends Recorded, with exactly one
\* audit row written for it in that cycle, and a row with success = true is
\* written only after the summary send for that email returned success.
C21_RecordedOnce ==
    Called =>
        /\ Len(last.saves) = 1
        /\ last.written
        /\ csv[Len(csv)] = CsvRow(last.saves[1])
        /\ last.saves[1].success => OnlySummary(TRUE)

\* fetch_unread_emails has been called
Fetched == reader_call.op = "fetch_unread_emails"

\* C22: fetch_unread_emails makes at most 3 attempts; when the provider call
\* fails at every one of them it raises to its caller and returns no list;
\* otherwise it returns the list of the first attempt that did not fail, so
\* one failing attempt followed by a successful one returns the fetched list.
C22_BoundedFetchRetry ==
    Fetched =>
        /\ reader_call.attempts \in 1..3
        /\ reader_call.raised <=> \A n \in 1..3 : reader_call.raises[n]
        /\ reader_call.raised => reader_call.attempts = 3 /\ reader_call.emails = << >>
        /\ ~reader_call.raised =>
              /\ reader_call.emails = reader_call.listed
              /\ ~reader_call.raises[reader_call.attempts]
              /\ \A n \in 1..(reader_call.attempts - 1) : reader_call.raises[n]
        /\ reader_call.raises[1] /\ ~reader_call.raises[2] =>
              /\ ~reader_call.raised
              /\ reader_call.attempts = 2
              /\ reader_call.emails = reader_call.listed

C22_Reached ==
    /\ Fetched
    /\ reader_call.raises[1]
    /\ ~reader_call.raises[2]
    /\ reader_call.attempts = 2
    /\ Len(reader_call.emails) = 2

\* the numbers of the parts of a given type
PartsOfType(parts, mimeType) == { i \in 1..Len(parts) : parts[i].mimeType = mimeType }

\* the decoded text of the first part among those numbered in S
FirstText(parts, S) ==
    LET i == CHOOSE k \in S : \A j \in S : k <= j
    IN  IF HasData(parts[i]) THEN b64decode(parts[i].data[1]) ELSE << >>

\* C24: for a multipart message the extracted body is the first text/plain
\* part only; the tag-stripped text/html part is used only when the message
\* has no text/plain part, and is never combined with plain text.
C24_FirstPlainPartOnly ==
    /\ reader_call.op = "_extract_email_body"
    /\ reader_call.payload[1].multipart
    => LET parts == reader_call.payload[1].parts
           plain == PartsOfType(parts, "text/plain")
           html == PartsOfType(parts, "text/html")
       IN  reader_call.body =
              IF plain # {} THEN Strip(FirstText(parts, plain))
              ELSE IF html # {} THEN Strip(StripTags(FirstText(parts, html)))
              ELSE << >>

\* the latest call returned True, its row was written, and the mark_as_read
\* that followed failed: the message is still unread
MarkFailed ==
    /\ Called
    /\ last.ret = "true"
    /\ last.written
    /\ last.marked
    /\ last.message_id \in unread

\* C23: mark_as_read is called for every email whose processing returned True
\* and is best-effort.  When it fails the cycle is not aborted, the email is
\* counted in successful_count, the cycle's errors hold nothing for it (they
\* hold one entry for each call that raised, and none when this was the only
\* call), and the loop goes on with the next email.
C23_MarkAsReadBestEffort ==
    /\ Called /\ last.ret = "true" => last.marked
    /\ MarkFailed =>
          /\ ~Critical(results)
          /\ pc \in { "loop", "returned" }
          /\ results.successful_count >= 1
          /\ results.successful_count <= results.processed_count
          /\ Len(results.errors) = Len(done) - results.processed_count
          /\ Len(done) = 1 =>
                /\ results.successful_count = 1
                /\ results.failed_count = 0
                /\ results.errors = << >>
          /\ pc = "loop" => idx = Len(done) + 1 /\ idx <= Len(emails_to_process)
          /\ pc = "returned" => done = emails_to_process

C23_Reached ==
    /\ MarkFailed
    /\ pc = "loop"
    /\ Len(done) = 1
    /\ results.successful_count = 1

\* the rows appended to the file since the cleanup in progress read it
AppendedSince == SubSeq(csv, db_call.ret.count + 1, Len(csv))

\* C25: the audit log has no protection against concurrent writers.  The
\* rewrite of a cleanup_old_records writes the rows it read and kept, whatever
\* another process appended in between: the last writer wins, every row
\* appended since the read is gone from the file, and check_duplicate is false
\* afterwards for the id of such a row unless a row read earlier holds it.
C25_LastWriterWins ==
    [][ db_call.op = "read_csv" /\ db_call'.op = "cleanup_old_records" =>
          /\ csv' = db_call.ret.rows
          /\ \A i \in 1..Len(AppendedSince) :
                (\A j \in 1..Len(csv') :
                    csv'[j].original_message_id # AppendedSince[i].original_message_id)
                => ~check_duplicate(AppendedSince[i].original_message_id, csv', TRUE) ]_vars

\* no day has passed, so no row can have expired: the cleanup has returned,
\* a row for "a1" was written during it, and check_duplicate("a1") is false
C25_Reached ==
    /\ db_call.op = "cleanup_old_records"
    /\ now = 0
    /\ db_call.args.days_to_keep = << 0 >>
    /\ << 10, 1 >> \in recorded
    /\ csv # << >>
    /\ ~check_duplicate(<< 10, 1 >>, csv, TRUE)
    /\ \A i \in 1..Len(csv) : csv[i].original_message_id # << 10, 1 >>

\* the rows of the log that hold message_id
RowsOf(message_id) ==
    { i \in 1..Len(csv) : csv[i].original_message_id = message_id }

\* C26: while a cycle runs, a message whose processing returned True (it is
\* counted in successful_count and mark_as_read is called for it) has a row
\* with success = true in the audit log.
C26_SuccessIsLogged ==
    CycleInFlight /\ Called /\ last.ret = "true" =>
        /\ last.marked
        /\ results.successful_count >= 1
        /\ \E i \in RowsOf(last.message_id) : csv[i].success

\* C27: no message id has more than one row in the audit log.
C27_AtMostOneRow ==
    \A message_id \in MsgIds : Cardinality(RowsOf(message_id)) <= 1

\* C29: on every return of process_alerts processed_count is
\* successful_count + failed_count, and without a critical error
\* skipped_count + processed_count is the number of emails fetched.
C29_CountersConsistent ==
    pc = "returned" =>
        /\ results.processed_count
             = results.successful_count + results.failed_count
        /\ ~Critical(results) =>
             results.skipped_count + results.processed_count = Len(emails)

\* C28: under repeated cycles whose fetch succeeds, every unread message of
\* the inbox eventually has a row in the audit log.
C28_NoStarvation == <>(\A message_id \in StarveInbox : RowsOf(message_id) # {})

\* C30: whenever is_running is true the scheduler thread is in its loop with
\* the loop condition true (is_running and stop_event not set) and one job
\* scheduled, so that run_pending goes on triggering cycles; a start while
\* running adds no job.
C30_RunningMeansTriggering ==
    /\ is_running => thread = "alive" /\ ~stop_event /\ jobs = 1
    /\ is_running /\ pc = "idle" /\ caller = "none" => ENABLED RunPending
    /\ jobs <= 1

====
